---------------------------- MODULE Spec2Model ----------------------------
(***************************************************************************)
(* celery.app.defaults: the configuration schema (Option, NAMESPACES),     *)
(* its flattening into DEFAULTS, the deprecation scan and the memoized     *)
(* namespace resolver find.                                                *)
(*                                                                         *)
(* Python values are modelled as follows.                                  *)
(*   - a str is the sequence of its characters, so that lower() and '+'    *)
(*     are computed, not assumed;                                          *)
(*   - a dict is [kind |-> "dict", items |-> <<key, value>> pairs in       *)
(*     insertion order, keys distinct];                                    *)
(*   - an Option instance is a record of kind "Option";                    *)
(*   - any other value (a default, a version string) is V(repr);           *)
(*   - None in a str position is the sequence None, which is no str.       *)
(***************************************************************************)
EXTENDS Integers, Sequences, FiniteSets, TLC

VARIABLES
    NAMESPACES,   \* the module global NAMESPACES (a mutable dict)
    DEFAULTS,     \* the module global DEFAULTS, built once at import
    call,         \* arguments of the sequential call observed: [name, namespace]
    ret,          \* its outcome: a return value or the exception raised
    cache,        \* the cache of the memoize wrapper around find
    ran,          \* whether the last memoized call ran find's body
    tpc,          \* per thread: position inside the memoize wrapper
    targ,         \* per thread: the arguments of its call
    tval,         \* per thread: the value it looked up or computed
    flat,         \* the pairs yielded by the last flatten(NAMESPACES)
    conv,         \* outcome of the last Option.to_python
    source,       \* the configuration source given to find_deprecated_settings
    source0,      \* that source as it was when the scan was called
    spc,          \* position of the deprecation scan
    pending,      \* the deque of flatten, as the scan's generator holds it
    warnings,     \* the deprecation warnings emitted so far
    scanned       \* what find_deprecated_settings returned

vars == <<NAMESPACES, DEFAULTS, call, ret, cache, ran, tpc, targ, tval,
          flat, conv, source, source0, spc, pending, warnings, scanned>>

----------------------------------------------------------------------------
(* Python values *)

None == <<"<None>">>

V(repr) == [kind |-> "value", repr |-> repr]

PyNone == V("None")

Falsy == {"None", "False", "0", "0.0", "''", "()", "[]", "{}"}

Truthy(v) == v.kind # "value" \/ v.repr \notin Falsy

Return(v) == [kind |-> "return", value |-> v]

Raise(e) == [kind |-> "raise", exc |-> e]

NotCalled == [kind |-> "none"]

(* str.lower() *)
UpperCase ==
    <<"A","B","C","D","E","F","G","H","I","J","K","L","M",
      "N","O","P","Q","R","S","T","U","V","W","X","Y","Z">>

LowerCase ==
    <<"a","b","c","d","e","f","g","h","i","j","k","l","m",
      "n","o","p","q","r","s","t","u","v","w","x","y","z">>

lower_char(c) ==
    IF \E i \in DOMAIN UpperCase : UpperCase[i] = c
    THEN LowerCase[CHOOSE i \in DOMAIN UpperCase : UpperCase[i] = c]
    ELSE c

lower(s) == [i \in DOMAIN s |-> lower_char(s[i])]

upper_char(c) ==
    IF \E i \in DOMAIN LowerCase : LowerCase[i] = c
    THEN UpperCase[CHOOSE i \in DOMAIN LowerCase : LowerCase[i] = c]
    ELSE c

upper(s) == [i \in DOMAIN s |-> upper_char(s[i])]

capitalize(s) == [i \in DOMAIN s |-> IF i = 1 THEN upper_char(s[i]) ELSE s[i]]

(* dict *)
Dict(items) == [kind |-> "dict", items |-> items]

EmptyDict == Dict(<<>>)

isinstance_dict(v) == v.kind = "dict"

HasKey(d, k) == \E i \in DOMAIN d.items : d.items[i][1] = k

GetItem(d, k) == d.items[CHOOSE i \in DOMAIN d.items : d.items[i][1] = k][2]

SetItem(d, k, v) ==
    IF HasKey(d, k)
    THEN Dict([i \in DOMAIN d.items |->
                 IF d.items[i][1] = k THEN <<k, v>> ELSE d.items[i]])
    ELSE Dict(Append(d.items, <<k, v>>))

Keys(d) == {d.items[i][1] : i \in DOMAIN d.items}

----------------------------------------------------------------------------
(* class Option *)

typemap == {"string", "int", "float", "any", "bool", "dict", "tuple"}

NoKwargs == [k \in {} |-> PyNone]

OptionClass ==
    [kind |-> "Option", default |-> PyNone, type |-> "string",
     alt |-> PyNone, deprecate_by |-> PyNone, remove_by |-> PyNone]

\* __init__: self.default = default; self.type = kwargs.get('type') or
\* 'string'; then every keyword argument is set as an attribute.
Option(default, kwargs) ==
    LET base == [OptionClass EXCEPT
                   !.default = default,
                   !.type = IF "type" \in DOMAIN kwargs /\ kwargs["type"] # ""
                            THEN kwargs["type"] ELSE "string"]
    IN  [f \in DOMAIN base |->
           IF f \in DOMAIN kwargs THEN kwargs[f] ELSE base[f]]

\* to_python: self.typemap[self.type](value); a type that is no key of
\* typemap raises KeyError.  The converters live outside this file: the
\* converted value is kept symbolic.
to_python(self, value) ==
    IF self.type \in typemap
    THEN Return([kind |-> "value", repr |-> value.repr, as |-> self.type])
    ELSE Raise("KeyError")

----------------------------------------------------------------------------
(* NAMESPACES, as declared *)

NAMESPACES_literal ==
  Dict(
  <<
    <<<<"a","c","c","e","p","t","_","c","o","n","t","e","n","t">>,
        Option(V("DEFAULT_ACCEPT_CONTENT"), [type |-> "list"])>>,
    <<<<"a","d","m","i","n","s">>,
        Option(V("()"), [type |-> "tuple"])>>,
    <<<<"e","n","a","b","l","e","_","u","t","c">>,
        Option(V("True"), [type |-> "bool"])>>,
    <<<<"i","m","p","o","r","t","s">>,
        Option(V("()"), [type |-> "tuple"])>>,
    <<<<"i","n","c","l","u","d","e">>,
        Option(V("()"), [type |-> "tuple"])>>,
    <<<<"s","e","r","v","e","r","_","e","m","a","i","l">>,
        Option(V("'celery@localhost'"), NoKwargs)>>,
    <<<<"t","i","m","e","z","o","n","e">>,
        Option(PyNone, [type |-> "string"])>>,
    <<<<"b","e","a","t">>, Dict(<<   \* beat
        <<<<"s","c","h","e","d","u","l","e">>,
            Option(V("{}"), [type |-> "dict"])>>,
        <<<<"s","c","h","e","d","u","l","e","r">>,
            Option(V("'celery.beat:PersistentScheduler'"), NoKwargs)>>,
        <<<<"s","c","h","e","d","u","l","e","_","f","i","l","e","n","a","m","e">>,
            Option(V("'celerybeat-schedule'"), NoKwargs)>>,
        <<<<"s","y","n","c","_","e","v","e","r","y">>,
            Option(V("0"), [type |-> "int"])>>,
        <<<<"m","a","x","_","l","o","o","p","_","i","n","t","e","r","v","a","l">>,
            Option(V("0"), [type |-> "float"])>> >>)>>,
    <<<<"b","r","o","k","e","r">>, Dict(<<   \* broker
        <<<<"u","r","l">>,
            Option(PyNone, [type |-> "string"])>>,
        <<<<"c","o","n","n","e","c","t","i","o","n","_","t","i","m","e","o","u","t">>,
            Option(V("4"), [type |-> "float"])>>,
        <<<<"c","o","n","n","e","c","t","i","o","n","_","r","e","t","r","y">>,
            Option(V("True"), [type |-> "bool"])>>,
        <<<<"c","o","n","n","e","c","t","i","o","n","_","m","a","x","_","r","e","t","r","i","e","s">>,
            Option(V("100"), [type |-> "int"])>>,
        <<<<"f","a","i","l","o","v","e","r","_","s","t","r","a","t","e","g","y">>,
            Option(PyNone, [type |-> "string"])>>,
        <<<<"h","e","a","r","t","b","e","a","t">>,
            Option(PyNone, [type |-> "int"])>>,
        <<<<"h","e","a","r","t","b","e","a","t","_","c","h","e","c","k","r","a","t","e">>,
            Option(V("3.0"), [type |-> "int"])>>,
        <<<<"l","o","g","i","n","_","m","e","t","h","o","d">>,
            Option(PyNone, [type |-> "string"])>>,
        <<<<"p","o","o","l","_","l","i","m","i","t">>,
            Option(V("10"), [type |-> "int"])>>,
        <<<<"u","s","e","_","s","s","l">>,
            Option(V("False"), [type |-> "bool"])>>,
        <<<<"t","r","a","n","s","p","o","r","t">>,
            Option(PyNone, [type |-> "string"])>>,
        <<<<"t","r","a","n","s","p","o","r","t","_","o","p","t","i","o","n","s">>,
            Option(V("{}"), [type |-> "dict"])>>,
        <<<<"h","o","s","t">>,
            Option(PyNone, [type |-> "string"])>>,
        <<<<"p","o","r","t">>,
            Option(PyNone, [type |-> "int"])>>,
        <<<<"u","s","e","r">>,
            Option(PyNone, [type |-> "string"])>>,
        <<<<"p","a","s","s","w","o","r","d">>,
            Option(PyNone, [type |-> "string"])>>,
        <<<<"v","h","o","s","t">>,
            Option(PyNone, [type |-> "string"])>> >>)>>,
    <<<<"c","a","c","h","e">>, Dict(<<   \* cache
        <<<<"b","a","c","k","e","n","d">>,
            Option(PyNone, NoKwargs)>>,
        <<<<"b","a","c","k","e","n","d","_","o","p","t","i","o","n","s">>,
            Option(V("{}"), [type |-> "dict"])>> >>)>>,
    <<<<"c","a","s","s","a","n","d","r","a">>, Dict(<<   \* cassandra
        <<<<"c","o","l","u","m","n","_","f","a","m","i","l","y">>,
            Option(PyNone, [type |-> "string"])>>,
        <<<<"d","e","t","a","i","l","e","d","_","m","o","d","e">>,
            Option(V("False"), [type |-> "bool"])>>,
        <<<<"k","e","y","s","p","a","c","e">>,
            Option(PyNone, [type |-> "string"])>>,
        <<<<"r","e","a","d","_","c","o","n","s","i","s","t","e","n","c","y">>,
            Option(PyNone, [type |-> "string"])>>,
        <<<<"s","e","r","v","e","r","s">>,
            Option(PyNone, [type |-> "list"])>>,
        <<<<"p","o","r","t">>,
            Option(PyNone, [type |-> "string"])>>,
        <<<<"e","n","t","r","y","_","t","t","l">>,
            Option(PyNone, [type |-> "float"])>>,
        <<<<"w","r","i","t","e","_","c","o","n","s","i","s","t","e","n","c","y">>,
            Option(PyNone, [type |-> "string"])>> >>)>>,
    <<<<"c","h","o","r","d">>, Dict(<<   \* chord
        <<<<"p","r","o","p","a","g","a","t","e","s">>,
            Option(V("True"), [type |-> "bool"])>> >>)>>,
    <<<<"c","o","u","c","h","b","a","s","e">>, Dict(<<   \* couchbase
        <<<<"b","a","c","k","e","n","d","_","s","e","t","t","i","n","g","s">>,
            Option(PyNone, [type |-> "dict"])>> >>)>>,
    <<<<"e","m","a","i","l">>, Dict(<<   \* email
        <<<<"h","o","s","t">>,
            Option(V("'localhost'"), NoKwargs)>>,
        <<<<"p","o","r","t">>,
            Option(V("25"), [type |-> "int"])>>,
        <<<<"h","o","s","t","_","u","s","e","r">>,
            Option(PyNone, NoKwargs)>>,
        <<<<"h","o","s","t","_","p","a","s","s","w","o","r","d">>,
            Option(PyNone, NoKwargs)>>,
        <<<<"t","i","m","e","o","u","t">>,
            Option(V("2"), [type |-> "float"])>>,
        <<<<"u","s","e","_","s","s","l">>,
            Option(V("False"), [type |-> "bool"])>>,
        <<<<"u","s","e","_","t","l","s">>,
            Option(V("False"), [type |-> "bool"])>>,
        <<<<"c","h","a","r","s","e","t">>,
            Option(V("'us-ascii'"), NoKwargs)>> >>)>>,
    <<<<"m","o","n","g","o","d","b">>, Dict(<<   \* mongodb
        <<<<"b","a","c","k","e","n","d","_","s","e","t","t","i","n","g","s">>,
            Option(PyNone, [type |-> "dict"])>> >>)>>,
    <<<<"e","v","e","n","t">>, Dict(<<   \* event
        <<<<"s","e","r","i","a","l","i","z","e","r">>,
            Option(V("'json'"), NoKwargs)>>,
        <<<<"q","u","e","u","e","_","e","x","p","i","r","e","s">>,
            Option(V("60.0"), [type |-> "float"])>>,
        <<<<"q","u","e","u","e","_","t","t","l">>,
            Option(V("5.0"), [type |-> "float"])>> >>)>>,
    <<<<"r","e","d","i","s">>, Dict(<<   \* redis
        <<<<"d","b">>,
            Option(PyNone, [type |-> "int"])>>,
        <<<<"h","o","s","t">>,
            Option(PyNone, [type |-> "string"])>>,
        <<<<"m","a","x","_","c","o","n","n","e","c","t","i","o","n","s">>,
            Option(PyNone, [type |-> "int"])>>,
        <<<<"p","a","s","s","w","o","r","d">>,
            Option(PyNone, [type |-> "string"])>>,
        <<<<"p","o","r","t">>,
            Option(PyNone, [type |-> "int"])>> >>)>>,
    <<<<"r","e","s","u","l","t">>, Dict(<<   \* result
        <<<<"b","a","c","k","e","n","d">>,
            Option(PyNone, [type |-> "string"])>>,
        <<<<"c","a","c","h","e","_","m","a","x">>,
            Option(V("100"), [type |-> "int"])>>,
        <<<<"c","o","m","p","r","e","s","s","i","o","n">>,
            Option(PyNone, [type |-> "str"])>>,
        <<<<"e","x","c","h","a","n","g","e">>,
            Option(V("'celeryresults'"), NoKwargs)>>,
        <<<<"e","x","c","h","a","n","g","e","_","t","y","p","e">>,
            Option(V("'direct'"), NoKwargs)>>,
        <<<<"p","e","r","s","i","s","t","e","n","t">>,
            Option(PyNone, [type |-> "bool"])>>,
        <<<<"e","x","p","i","r","e","s">>,
            Option(V("timedelta(days=1)"), [type |-> "float"])>>,
        <<<<"s","e","r","i","a","l","i","z","e","r">>,
            Option(V("'json'"), NoKwargs)>> >>)>>,
    <<<<"r","i","a","k">>, Dict(<<   \* riak
        <<<<"b","a","c","k","e","n","d","_","s","e","t","t","i","n","g","s">>,
            Option(PyNone, [type |-> "dict"])>> >>)>>,
    <<<<"s","e","c","u","r","i","t","y">>, Dict(<<   \* security
        <<<<"k","e","y">>,
            Option(PyNone, [type |-> "string"])>>,
        <<<<"c","e","r","t","i","f","i","c","a","t","e">>,
            Option(PyNone, [type |-> "string"])>>,
        <<<<"c","e","r","t","_","s","t","o","r","e">>,
            Option(PyNone, [type |-> "string"])>> >>)>>,
    <<<<"s","q","l","a","l","c","h","e","m","y">>, Dict(<<   \* sqlalchemy
        <<<<"s","h","o","r","t","_","l","i","v","e","d","_","s","e","s","s","i","o","n","s">>,
            Option(V("False"), [type |-> "bool"])>>,
        <<<<"t","a","b","l","e","_","n","a","m","e","s">>,
            Option(PyNone, [type |-> "dict"])>>,
        <<<<"d","b","u","r","i">>,
            Option(PyNone, NoKwargs)>>,
        <<<<"e","n","g","i","n","e","_","o","p","t","i","o","n","s">>,
            Option(PyNone, [type |-> "dict"])>> >>)>>,
    <<<<"t","a","s","k">>, Dict(<<   \* task
        <<<<"a","c","k","s","_","l","a","t","e">>,
            Option(V("False"), [type |-> "bool"])>>,
        <<<<"a","l","w","a","y","s","_","e","a","g","e","r">>,
            Option(V("False"), [type |-> "bool"])>>,
        <<<<"a","n","n","o","t","a","t","i","o","n","s">>,
            Option(PyNone, [type |-> "any"])>>,
        <<<<"c","r","e","a","t","e","_","m","i","s","s","i","n","g","_","q","u","e","u","e","s">>,
            Option(V("True"), [type |-> "bool"])>>,
        <<<<"d","e","f","a","u","l","t","_","r","a","t","e","_","l","i","m","i","t">>,
            Option(PyNone, [type |-> "string"])>>,
        <<<<"d","e","f","a","u","l","t","_","r","o","u","t","i","n","g","_","k","e","y">>,
            Option(V("'celery'"), NoKwargs)>>,
        <<<<"d","e","f","a","u","l","t","_","q","u","e","u","e">>,
            Option(V("'celery'"), NoKwargs)>>,
        <<<<"d","e","f","a","u","l","t","_","e","x","c","h","a","n","g","e">>,
            Option(V("'celery'"), NoKwargs)>>,
        <<<<"d","e","f","a","u","l","t","_","e","x","c","h","a","n","g","e","_","t","y","p","e">>,
            Option(V("'direct'"), NoKwargs)>>,
        <<<<"d","e","f","a","u","l","t","_","d","e","l","i","v","e","r","y","_","m","o","d","e">>,
            Option(V("2"), [type |-> "string"])>>,
        <<<<"e","a","g","e","r","_","p","r","o","p","a","g","a","t","e","s","_","e","x","c","e","p","t","i","o","n","s">>,
            Option(V("False"), [type |-> "bool"])>>,
        <<<<"i","g","n","o","r","e","_","r","e","s","u","l","t">>,
            Option(V("False"), [type |-> "bool"])>>,
        <<<<"c","o","m","p","r","e","s","s","i","o","n">>,
            Option(PyNone, [type |-> "string"])>>,
        <<<<"r","e","j","e","c","t","_","o","n","_","w","o","r","k","e","r","_","l","o","s","t">>,
            Option(PyNone, [type |-> "bool"])>>,
        <<<<"r","o","u","t","e","s">>,
            Option(PyNone, [type |-> "any"])>>,
        <<<<"s","e","n","d","_","e","r","r","o","r","_","e","m","a","i","l","s">>,
            Option(V("False"), [type |-> "bool"])>>,
        <<<<"s","e","n","d","_","s","e","n","t","_","e","v","e","n","t">>,
            Option(V("False"), [type |-> "bool"])>>,
        <<<<"s","t","o","r","e","_","e","r","r","o","r","s","_","e","v","e","n","_","i","f","_","i","g","n","o","r","e","d">>,
            Option(V("False"), [type |-> "bool"])>>,
        <<<<"p","r","o","t","o","c","o","l">>,
            Option(V("1"), [type |-> "int"])>>,
        <<<<"p","u","b","l","i","s","h","_","r","e","t","r","y">>,
            Option(V("True"), [type |-> "bool"])>>,
        <<<<"p","u","b","l","i","s","h","_","r","e","t","r","y","_","p","o","l","i","c","y">>,
            Option(V("{ 'max_retries': 3, 'interval_start':..."), [type |-> "dict"])>>,
        <<<<"s","e","r","i","a","l","i","z","e","r">>,
            Option(V("'json'"), NoKwargs)>>,
        <<<<"s","o","f","t","_","t","i","m","e","_","l","i","m","i","t">>,
            Option(PyNone, [type |-> "float"])>>,
        <<<<"t","i","m","e","_","l","i","m","i","t">>,
            Option(PyNone, [type |-> "float"])>>,
        <<<<"t","r","a","c","k","_","s","t","a","r","t","e","d">>,
            Option(V("False"), [type |-> "bool"])>>,
        <<<<"q","u","e","u","e","s">>,
            Option(PyNone, [type |-> "dict"])>>,
        <<<<"q","u","e","u","e","_","h","a","_","p","o","l","i","c","y">>,
            Option(PyNone, [type |-> "string"])>>,
        <<<<"q","u","e","u","e","_","m","a","x","_","p","r","i","o","r","i","t","y">>,
            Option(PyNone, [type |-> "int"])>> >>)>>,
    <<<<"w","o","r","k","e","r">>, Dict(<<   \* worker
        <<<<"a","g","e","n","t">>,
            Option(PyNone, [type |-> "string"])>>,
        <<<<"a","u","t","o","s","c","a","l","e","r">>,
            Option(V("'celery.worker.autoscale:Autoscaler'"), NoKwargs)>>,
        <<<<"a","u","t","o","r","e","l","o","a","d","e","r">>,
            Option(V("'celery.worker.autoreload:Autoreloader'"), NoKwargs)>>,
        <<<<"c","o","n","c","u","r","r","e","n","c","y">>,
            Option(V("0"), [type |-> "int"])>>,
        <<<<"d","i","s","a","b","l","e","_","r","a","t","e","_","l","i","m","i","t","s">>,
            Option(V("False"), [type |-> "bool"])>>,
        <<<<"t","i","m","e","r">>,
            Option(PyNone, [type |-> "string"])>>,
        <<<<"t","i","m","e","r","_","p","r","e","c","i","s","i","o","n">>,
            Option(V("1.0"), [type |-> "float"])>>,
        <<<<"f","o","r","c","e","_","e","x","e","c","v">>,
            Option(V("False"), [type |-> "bool"])>>,
        <<<<"h","i","j","a","c","k","_","r","o","o","t","_","l","o","g","g","e","r">>,
            Option(V("True"), [type |-> "bool"])>>,
        <<<<"c","o","n","s","u","m","e","r">>,
            Option(V("'celery.worker.consumer:Consumer'"), [type |-> "string"])>>,
        <<<<"e","n","a","b","l","e","_","r","e","m","o","t","e","_","c","o","n","t","r","o","l">>,
            Option(V("True"), [type |-> "bool"])>>,
        <<<<"l","o","g","_","f","o","r","m","a","t">>,
            Option(V("DEFAULT_PROCESS_LOG_FMT"), NoKwargs)>>,
        <<<<"l","o","g","_","c","o","l","o","r">>,
            Option(PyNone, [type |-> "bool"])>>,
        <<<<"m","a","x","_","t","a","s","k","s","_","p","e","r","_","c","h","i","l","d">>,
            Option(PyNone, [type |-> "int"])>>,
        <<<<"p","o","o","l">>,
            Option(V("DEFAULT_POOL"), NoKwargs)>>,
        <<<<"p","o","o","l","_","p","u","t","l","o","c","k","s">>,
            Option(V("True"), [type |-> "bool"])>>,
        <<<<"p","o","o","l","_","r","e","s","t","a","r","t","s">>,
            Option(V("False"), [type |-> "bool"])>>,
        <<<<"p","r","e","f","e","t","c","h","_","m","u","l","t","i","p","l","i","e","r">>,
            Option(V("4"), [type |-> "int"])>>,
        <<<<"s","e","n","d","_","e","v","e","n","t","s">>,
            Option(V("False"), [type |-> "bool"])>>,
        <<<<"s","t","a","t","e","_","d","b">>,
            Option(PyNone, NoKwargs)>>,
        <<<<"t","a","s","k","_","l","o","g","_","f","o","r","m","a","t">>,
            Option(V("DEFAULT_TASK_LOG_FMT"), NoKwargs)>>,
        <<<<"r","e","d","i","r","e","c","t","_","s","t","d","o","u","t","s">>,
            Option(V("True"), [type |-> "bool"])>>,
        <<<<"r","e","d","i","r","e","c","t","_","s","t","d","o","u","t","s","_","l","e","v","e","l">>,
            Option(V("'WARNING'"), NoKwargs)>>,
        <<<<"d","i","r","e","c","t">>,
            Option(V("False"), [type |-> "bool"])>>,
        <<<<"l","o","s","t","_","w","a","i","t">>,
            Option(V("10.0"), [type |-> "float"])>> >>)>>
  >>)

----------------------------------------------------------------------------
(* flatten *)

Underscore == <<"_">>

\* "yield name + key, value": the name a leaf is yielded under.
qualname_without_prefix(name, key) == key

qualname(name, key) == name \o key

\* One pass of "for key, value in items(space)": a nested dict is appended
\* to the deque under name + key + '_', anything else is yielded as
\* (name + key, value).  st = [stack, out].
RECURSIVE flatten_items(_, _, _, _)
flatten_items(name, its, i, st) ==
    IF i > Len(its) \/ Len(st.stack) + Len(st.out) < 0 THEN st
    ELSE LET key == its[i][1]
             value == its[i][2]
         IN  IF isinstance_dict(value)
             THEN flatten_items(name, its, i + 1,
                    [st EXCEPT !.stack =
                        Append(@, <<name \o key \o Underscore, value>>)])
             ELSE flatten_items(name, its, i + 1,
                    [st EXCEPT !.out = Append(@, <<qualname(name, key), value>>)])

\* "while stack: name, space = stack.popleft(); ..."
RECURSIVE flatten_loop(_)
flatten_loop(st) ==
    IF st.stack = <<>> THEN st.out
    ELSE LET name == Head(st.stack)[1]
             space == Head(st.stack)[2]
         IN  flatten_loop(flatten_items(name, space.items, 1,
                            [st EXCEPT !.stack = Tail(@)]))

flatten(d, ns) == flatten_loop([stack |-> << <<ns, d>> >>, out |-> <<>>])

\* {key: value.default for key, value in flatten(NAMESPACES)}
RECURSIVE defaults_of(_, _, _)
defaults_of(pairs, i, acc) ==
    IF i > Len(pairs) \/ ~isinstance_dict(acc) THEN acc
    ELSE defaults_of(pairs, i + 1,
                     SetItem(acc, pairs[i][1], pairs[i][2].default))

RECURSIVE options_of(_, _, _)
options_of(pairs, i, acc) ==
    IF i > Len(pairs) \/ ~isinstance_dict(acc) THEN acc
    ELSE options_of(pairs, i + 1, SetItem(acc, pairs[i][1], pairs[i][2]))

build_DEFAULTS_keeps_option(tree) == options_of(flatten(tree, <<>>), 1, EmptyDict)

build_DEFAULTS(tree) == defaults_of(flatten(tree, <<>>), 1, EmptyDict)

----------------------------------------------------------------------------
(* find_deprecated_settings *)

getattr(obj, name, default) ==
    IF HasKey(obj, name) THEN GetItem(obj, name) ELSE default

\* "(opt.deprecate_by or opt.remove_by) and getattr(source, name, None)"
warns_both_versions_needed(src, name, opt) ==
    /\ Truthy(opt.deprecate_by) /\ Truthy(opt.remove_by)
    /\ Truthy(getattr(src, name, PyNone))

warns(src, name, opt) ==
    /\ Truthy(opt.deprecate_by) \/ Truthy(opt.remove_by)
    /\ Truthy(getattr(src, name, PyNone))

warn_deprecated(name, opt) ==
    [description |-> name, deprecation |-> opt.deprecate_by,
     removal |-> opt.remove_by, alternative |-> opt.alt]

----------------------------------------------------------------------------
(* find: the function under the memoize decorator *)

searchresult(namespace, key, type) ==
    [namespace |-> namespace, key |-> key, type |-> type]

\* "return searchresult(None, name.lower(), DEFAULTS[name.lower()])"
find_qualname(name) ==
    IF HasKey(DEFAULTS, lower(name))
    THEN Return(searchresult(None, lower(name), GetItem(DEFAULTS, lower(name))))
    ELSE Raise("KeyError")

\* "for ns, keys in items(NAMESPACES)": one test of the name against the
\* entry's own name, then, for a dict, one lookup of the name inside it.
RECURSIVE find_scan(_, _)
find_scan(name, i) ==
    IF i > Len(NAMESPACES.items) THEN find_qualname(name)
    ELSE LET ns == NAMESPACES.items[i][1]
             keys == NAMESPACES.items[i][2]
         IN  IF lower(ns) = lower(name)
             THEN Return(searchresult(None, ns, keys))
             ELSE IF isinstance_dict(keys) /\ HasKey(keys, lower(name))
             THEN Return(searchresult(ns, lower(name),
                                      GetItem(keys, lower(name))))
             ELSE find_scan(name, i + 1)

\* find rebinds and mutates no global: NAMESPACES is as it was.
find_pops_the_key(name, namespace) ==
    Dict([i \in DOMAIN NAMESPACES.items |->
            IF isinstance_dict(NAMESPACES.items[i][2])
            THEN <<NAMESPACES.items[i][1],
                   Dict(SelectSeq(NAMESPACES.items[i][2].items,
                                  LAMBDA kv : kv[1] # lower(name)))>>
            ELSE NAMESPACES.items[i]])

find_leaves_NAMESPACES(name, namespace) == NAMESPACES

\* The try block, namespace already lowered:
\* NAMESPACES[namespace][name.lower()] raises KeyError when either key is
\* missing (caught: the scan follows) and TypeError when
\* NAMESPACES[namespace] is an Option, which has no __getitem__ (not caught).
find_try(name, namespace) ==
    IF ~HasKey(NAMESPACES, namespace) THEN find_scan(name, 1)
    ELSE IF ~isinstance_dict(GetItem(NAMESPACES, namespace))
    THEN Raise("TypeError")
    ELSE IF HasKey(GetItem(NAMESPACES, namespace), lower(name))
    THEN Return(searchresult(namespace, lower(name),
                  GetItem(GetItem(NAMESPACES, namespace), lower(name))))
    ELSE find_scan(name, 1)

find_namespace_not_lowered(name, namespace) == find_try(name, namespace)

\* "namespace = namespace.lower()", then the try block.
find(name, namespace) == find_try(name, lower(namespace))


----------------------------------------------------------------------------
(* @memoize(maxsize=None): the wrapper around find, with its cache.  The  *)
(* cache is a dict in order of use: a hit moves the entry to the end, a    *)
(* store into a full cache (maxsize entries) drops the entries at the      *)
(* front.                                                                  *)

find_maxsize_one == [kind |-> "value", repr |-> "1", n |-> 1]

find_maxsize == PyNone

memoize_key(name, namespace) == <<name, namespace>>

cache_hit(key) == HasKey(cache, key)

cache_get(key) == GetItem(cache, key)

RemoveKey(d, k) == Dict(SelectSeq(d.items, LAMBDA kv : kv[1] # k))

cache_after_get(key) ==
    Dict(Append(RemoveKey(cache, key).items, <<key, GetItem(cache, key)>>))

RECURSIVE purge(_, _)
purge(d, limit) ==
    IF Truthy(limit) /\ Len(d.items) >= limit.n /\ d.items # <<>>
    THEN purge(Dict(Tail(d.items)), limit)
    ELSE d

cache_after_store(key, value) ==
    IF HasKey(cache, key) THEN SetItem(cache, key, value)
    ELSE Dict(Append(purge(cache, find_maxsize).items, <<key, value>>))

\* One call of the wrapper: the cached value on a hit; on a miss the body
\* runs and what it returns is stored (an exception passes through, and
\* stores nothing).
find_memoized(args) ==
    LET key == memoize_key(args.name, args.namespace)
    IN  /\ call' = args
        /\ IF cache_hit(key)
           THEN /\ ret' = Return(cache_get(key))
                /\ cache' = cache_after_get(key)
                /\ ran' = FALSE
                /\ UNCHANGED NAMESPACES
           ELSE /\ ret' = find(args.name, args.namespace)
                /\ NAMESPACES' = find_leaves_NAMESPACES(args.name,
                                                        args.namespace)
                /\ cache' = IF ret'.kind = "return"
                            THEN cache_after_store(key, ret'.value)
                            ELSE cache
                /\ ran' = TRUE
        /\ UNCHANGED <<DEFAULTS, tpc, targ, tval, flat, conv, source,
                       source0, spc, pending, warnings, scanned>>

----------------------------------------------------------------------------
(* Namespace trees the model starts from: the declared one, and every     *)
(* two-level tree over a small pool of names.                             *)

MaxTop == 2

a == <<"a">>

b == <<"b">>

c == <<"c">>

a_b == <<"a", "_", "b">>

celery == <<"c","e","l","e","r","y">>

unknown == <<"t","o","t","a","l","l","y","_","u","n","k","n","o","w","n">>

\* The sequences over S of length at most n that repeat no element.
NoRepeatSeqs(S, n) ==
    UNION {{s \in [1..k -> S] : \A i, j \in 1..k : s[i] = s[j] => i = j} :
           k \in 0..n}

\* What an entry of a generated tree may be: an Option of some kind, or a
\* nested dict given by its keys and the kind of each key's Option.
Shapes(KeySeqs, Kinds) ==
    {[dict |-> FALSE, kind |-> k] : k \in Kinds}
    \cup UNION {{[dict |-> TRUE, keys |-> ks, kinds |-> kk] :
                    kk \in [1..Len(ks) -> Kinds]} :
                ks \in KeySeqs}

\* The default of a generated Option names the place it was declared at.
OptionAt(path, kind) ==
    Option([kind |-> "value", repr |-> "'default'", at |-> path],
           CASE kind = "plain" -> NoKwargs
             [] kind = "deprecated" ->
                  [deprecate_by |-> V("'2.5'"), remove_by |-> V("'4.0'"),
                   alt |-> V("'replacement'")]
             [] kind = "removed" -> [remove_by |-> V("'4.0'")])

EntryOf(name, shape) ==
    IF shape.dict
    THEN Dict([j \in 1..Len(shape.keys) |->
                 <<shape.keys[j], OptionAt(<<name, shape.keys[j]>>, shape.kinds[j])>>])
    ELSE OptionAt(<<name>>, shape.kind)

TreesOver(TopPool, KeySeqs, Kinds) ==
    UNION {{Dict([i \in 1..Len(t) |-> <<t[i], EntryOf(t[i], e[i])>>]) :
               e \in [1..Len(t) -> Shapes(KeySeqs, Kinds)]} :
           t \in NoRepeatSeqs(TopPool, MaxTop)}

FindTrees == {NAMESPACES_literal} \cup TreesOver({a, b, a_b}, {<<>>, <<b>>, <<c>>, <<b, c>>}, {"plain"})

SchemaTrees ==
    {NAMESPACES_literal}
    \cup TreesOver({a, b}, {<<>>, <<b>>}, {"plain", "deprecated", "removed"})

TopNames(tree) == Keys(tree)

NestedKeys(tree) ==
    UNION {Keys(tree.items[i][2]) :
           i \in {k \in DOMAIN tree.items : isinstance_dict(tree.items[k][2])}}

FlatNames(tree) ==
    LET pairs == flatten(tree, <<>>) IN {pairs[i][1] : i \in DOMAIN pairs}

\* The spellings a caller may give a name in.
Spellings(S) == S \cup {upper(s) : s \in S} \cup {capitalize(s) : s \in S}

NameArgs(tree) ==
    TopNames(tree) \cup NestedKeys(tree) \cup FlatNames(tree) \cup {unknown}

Args(names, namespaces) ==
    {[name |-> n, namespace |-> ns] : n \in names, ns \in namespaces}

\* The argument pairs find is applied to: every name of the tree, in every
\* spelling, under the default namespace; every key of an entry (and an
\* unknown one) under that entry's name, both in every spelling; and every
\* top-level name and key under every top-level name of the tree.
Calls(tree) ==
    Args(Spellings(NameArgs(tree)), {celery})
    \cup UNION {Args(Spellings((IF isinstance_dict(tree.items[i][2])
                                THEN Keys(tree.items[i][2]) ELSE {})
                               \cup {unknown}),
                     Spellings({tree.items[i][1]})) :
                i \in DOMAIN tree.items}
    \cup Args(TopNames(tree) \cup NestedKeys(tree) \cup {unknown}, TopNames(tree))

NoCall == [name |-> None, namespace |-> None]

NumThreads == 2

Threads == 1..NumThreads

\* The state the import of the module leaves, nothing called yet; the
\* arguments of the call to come (call, source) are set by each Init.
ImportState(tree) ==
    /\ NAMESPACES = tree
    /\ DEFAULTS = build_DEFAULTS(tree)
    /\ ret = NotCalled
    /\ cache = EmptyDict
    /\ ran = FALSE
    /\ tpc = [t \in Threads |-> "idle"]
    /\ targ = [t \in Threads |-> NoCall]
    /\ tval = [t \in Threads |-> NotCalled]
    /\ flat = NotCalled
    /\ conv = NotCalled
    /\ source0 = EmptyDict
    /\ spc = "idle"
    /\ pending = <<>>
    /\ warnings = <<>>
    /\ scanned = NotCalled

----------------------------------------------------------------------------
(* The resolver as a function of the tree and its arguments: the first   *)
(* call of find in a process, on each tree and argument pair.             *)

InitFind ==
    \E tree \in FindTrees :
        /\ ImportState(tree)
        /\ call \in Calls(tree)
        /\ source = EmptyDict

CallFind ==
    /\ ret = NotCalled
    /\ find_memoized(call)

NextFind == CallFind

SpecFind == InitFind /\ [][NextFind]_vars

----------------------------------------------------------------------------
(* The four resolution strategies, as the specification lists them. *)

Entries == DOMAIN NAMESPACES.items

EntryName(i) == NAMESPACES.items[i][1]

Entry(i) == NAMESPACES.items[i][2]

First(S) == CHOOSE i \in S : \A j \in S : i <= j

\* 1: the namespace argument names a nested mapping that holds the name.
Direct(name, namespace) ==
    {i \in Entries : /\ EntryName(i) = lower(namespace)
                     /\ isinstance_dict(Entry(i))
                     /\ lower(name) \in Keys(Entry(i))}

\* 2: the name is the name of an entry of the tree.
Named(name) == {i \in Entries : lower(EntryName(i)) = lower(name)}

\* 3: the name is a key of a nested mapping.
Holders(name) ==
    {i \in Entries : isinstance_dict(Entry(i)) /\ lower(name) \in Keys(Entry(i))}

\* 4: the name is a key of DEFAULTS.
Qualified(name) == lower(name) \in Keys(DEFAULTS)

StrictOrder(name, namespace) ==
    IF Direct(name, namespace) # {}
    THEN LET i == First(Direct(name, namespace))
         IN  Return(searchresult(EntryName(i), lower(name),
                                 GetItem(Entry(i), lower(name))))
    ELSE IF Named(name) # {}
    THEN LET i == First(Named(name))
         IN  Return(searchresult(None, EntryName(i), Entry(i)))
    ELSE IF Holders(name) # {}
    THEN LET i == First(Holders(name))
         IN  Return(searchresult(EntryName(i), lower(name),
                                 GetItem(Entry(i), lower(name))))
    ELSE IF Qualified(name)
    THEN Return(searchresult(None, lower(name), GetItem(DEFAULTS, lower(name))))
    ELSE Raise("KeyError")

Called == ret # NotCalled

\* C1: on every tree and for every argument pair, what find returns is the
\* result of the first strategy that matches in the strict order direct
\* match, namespace-as-name, cross-namespace key, qualified name; so a name
\* that is the name of an entry resolves to that entry even when an earlier
\* namespace holds the name as a key.
C1_StrictPriorityOrder ==
    (Called /\ ret.kind = "return") =>
        ret = StrictOrder(call.name, call.namespace)

\* The same on the declared tree alone, where no key of a namespace is the
\* name of an entry.
StrictPriorityOrder_on_declared_tree ==
    (Called /\ ret.kind = "return" /\ NAMESPACES = NAMESPACES_literal) =>
        ret = StrictOrder(call.name, call.namespace)

\* C2: find returns a result or fails with the missing-key error, and fails
\* exactly when none of the four strategies matches; nothing else is raised.
C2_FailsOnlyWithNotFound ==
    Called =>
        /\ ret.kind = "return" \/ ret = Raise("KeyError")
        /\ ret = Raise("KeyError") <=>
              /\ Direct(call.name, call.namespace) = {}
              /\ Named(call.name) = {}
              /\ Holders(call.name) = {}
              /\ ~Qualified(call.name)

\* C4: when the lowercased namespace argument names a nested mapping ns and
\* the lowercased name is a key k of it, find returns (ns, k, tree[ns][k]),
\* whatever the spelling of the two arguments.
C4_DirectMatch ==
    Called =>
        \A i \in Entries :
            (isinstance_dict(Entry(i)) /\ lower(call.namespace) = EntryName(i)) =>
                \A j \in DOMAIN Entry(i).items :
                    lower(call.name) = Entry(i).items[j][1] =>
                        ret = Return(searchresult(EntryName(i),
                                                  Entry(i).items[j][1],
                                                  Entry(i).items[j][2]))

C4_Witness ==
    /\ NAMESPACES = NAMESPACES_literal
    /\ call = [name |-> <<"U","R","L">>, namespace |-> <<"B","r","o","k","e","r">>]
    /\ ret.kind = "return"
    /\ ret.value.namespace = <<"b","r","o","k","e","r">>
    /\ ret.value.key = <<"u","r","l">>

\* C5: when neither the direct match nor the namespace-as-name match applies
\* and the name is a key of more than one nested namespace, find returns the
\* entry of the first of them in declaration order.
C5_FirstDeclaredNamespaceWins ==
    (/\ Called
     /\ Direct(call.name, call.namespace) = {}
     /\ Named(call.name) = {}
     /\ Cardinality(Holders(call.name)) > 1) =>
        LET i == First(Holders(call.name))
        IN  ret = Return(searchresult(EntryName(i), lower(call.name),
                                      GetItem(Entry(i), lower(call.name))))

\* The same for the calls that do not end in the TypeError of the try block
\* (the namespace argument names no top-level Option).
FirstDeclaredNamespaceWins_when_no_TypeError ==
    (/\ Called
     /\ ret # Raise("TypeError")
     /\ Direct(call.name, call.namespace) = {}
     /\ Named(call.name) = {}
     /\ Cardinality(Holders(call.name)) > 1) =>
        LET i == First(Holders(call.name))
        IN  ret = Return(searchresult(EntryName(i), lower(call.name),
                                      GetItem(Entry(i), lower(call.name))))

\* C6: on the declared tree and under the default namespace, the qualified
\* name ns + '_' + key of every namespaced setting resolves by the
\* qualified-name fallback to (None, name, default of that setting).
C6_QualifiedNameFallback ==
    (Called /\ NAMESPACES = NAMESPACES_literal /\ call.namespace = celery) =>
        \A i \in Entries :
            isinstance_dict(Entry(i)) =>
                \A j \in DOMAIN Entry(i).items :
                    call.name = EntryName(i) \o <<"_">> \o Entry(i).items[j][1] =>
                        ret = Return(searchresult(None, call.name,
                                                  Entry(i).items[j][2].default))

C6_Witness ==
    /\ NAMESPACES = NAMESPACES_literal
    /\ call = [name |-> <<"b","r","o","k","e","r","_","u","r","l">>,
               namespace |-> celery]
    /\ ret = Return(searchresult(None, <<"b","r","o","k","e","r","_","u","r","l">>,
                                 PyNone))

----------------------------------------------------------------------------
(* flatten(NAMESPACES) and DEFAULTS *)

InitFlatten ==
    \E tree \in SchemaTrees :
        ImportState(tree) /\ call = NoCall /\ source = EmptyDict

CallFlatten ==
    /\ flat = NotCalled
    /\ flat' = [kind |-> "pairs", pairs |-> flatten(NAMESPACES, <<>>)]
    /\ UNCHANGED <<NAMESPACES, DEFAULTS, call, ret, cache, ran, tpc, targ,
                   tval, conv, source, source0, spc, pending, warnings,
                   scanned>>

NextFlatten == CallFlatten

SpecFlatten == InitFlatten /\ [][NextFlatten]_vars

\* The leaves of the tree, by position: <<i, 0>> a top-level Option,
\* <<i, j>> the j-th Option of the i-th entry, a nested mapping.
Leaves ==
    {<<i, 0>> : i \in {k \in Entries : ~isinstance_dict(Entry(k))}}
    \cup UNION {{<<i, j>> : j \in DOMAIN Entry(i).items} :
                i \in {k \in Entries : isinstance_dict(Entry(k))}}

LeafName(l) ==
    IF l[2] = 0 THEN EntryName(l[1])
    ELSE EntryName(l[1]) \o <<"_">> \o Entry(l[1]).items[l[2]][1]

LeafOption(l) ==
    IF l[2] = 0 THEN Entry(l[1]) ELSE Entry(l[1]).items[l[2]][2]

\* C8: on the declared tree flatten yields exactly one pair for every leaf
\* Option, named by the bare key (top level) or namespace + '_' + key; no
\* name is yielded twice; DEFAULTS has one entry per leaf and maps every
\* yielded name to its Option's default.
C8_FlattenCompleteness ==
    (flat # NotCalled /\ NAMESPACES = NAMESPACES_literal) =>
        /\ \A l \in Leaves :
              Cardinality({k \in DOMAIN flat.pairs :
                             flat.pairs[k] = <<LeafName(l), LeafOption(l)>>}) = 1
        /\ Len(flat.pairs) = Cardinality(Leaves)
        /\ \A k1, k2 \in DOMAIN flat.pairs :
              flat.pairs[k1][1] = flat.pairs[k2][1] => k1 = k2
        /\ Len(DEFAULTS.items) = Cardinality(Leaves)
        /\ \A k \in DOMAIN flat.pairs :
              /\ HasKey(DEFAULTS, flat.pairs[k][1])
              /\ GetItem(DEFAULTS, flat.pairs[k][1]) = flat.pairs[k][2].default

C8_Witness ==
    /\ NAMESPACES = NAMESPACES_literal
    /\ flat # NotCalled
    /\ \E k \in DOMAIN flat.pairs :
          flat.pairs[k][1] = <<"b","r","o","k","e","r","_","u","r","l">>
    /\ \E k \in DOMAIN flat.pairs :
          flat.pairs[k][1] = <<"t","i","m","e","z","o","n","e">>

----------------------------------------------------------------------------
(* Option.to_python on the Options of the tree *)

RawValues == {V("'1'"), V("'celery'")}

InitOption == InitFlatten

CallToPython ==
    /\ conv = NotCalled
    /\ \E l \in Leaves, value \in RawValues :
          conv' = [kind |-> "converted", name |-> LeafName(l),
                   type |-> LeafOption(l).type,
                   outcome |-> to_python(LeafOption(l), value)]
    /\ UNCHANGED <<NAMESPACES, DEFAULTS, call, ret, cache, ran, tpc, targ,
                   tval, flat, source, source0, spc, pending, warnings,
                   scanned>>

NextOption == CallToPython

SpecOption == InitOption /\ [][NextOption]_vars

\* C3: the type of every Option of the declared tree is a key of typemap, so
\* to_python on a registered Option never fails for an unknown type.
C3_TypesAreTypemapKeys ==
    (conv # NotCalled /\ NAMESPACES = NAMESPACES_literal) =>
        /\ conv.type \in typemap
        /\ conv.outcome # Raise("KeyError")

----------------------------------------------------------------------------
(* find_deprecated_settings(source) *)

broker_url == <<"b","r","o","k","e","r","_","u","r","l">>

timezone == <<"t","i","m","e","z","o","n","e">>

b_b == <<"b", "_", "b">>

\* The names a configuration source may set, and the values it sets them to
\* (a falsy one and a truthy one).
SourceNames == {a, b, a_b, b_b, broker_url, timezone}

SourceValues == {V("''"), V("'amqp://'")}

RECURSIVE DictOf(_, _)
DictOf(f, names) ==
    IF names = {} THEN EmptyDict
    ELSE LET n == CHOOSE x \in names : TRUE
         IN  SetItem(DictOf(f, names \ {n}), n, f[n])

Sources(tree) ==
    UNION {{DictOf(f, S) : f \in [S -> SourceValues]} :
           S \in SUBSET (SourceNames \cap FlatNames(tree))}

InitScan ==
    \E tree \in SchemaTrees :
        ImportState(tree) /\ call = NoCall /\ source \in Sources(tree)

\* The call: "for name, opt in flatten(NAMESPACES)" starts the generator.
ScanCall ==
    /\ spc = "idle"
    /\ spc' = "loop"
    /\ pending' = flatten(NAMESPACES, <<>>)
    /\ source0' = source
    /\ UNCHANGED <<NAMESPACES, DEFAULTS, call, ret, cache, ran, tpc, targ,
                   tval, flat, conv, source, warnings, scanned>>

\* One iteration of the loop.
ScanStep ==
    /\ spc = "loop"
    /\ pending # <<>>
    /\ LET name == Head(pending)[1]
           opt == Head(pending)[2]
       IN  warnings' = IF warns(source, name, opt)
                       THEN Append(warnings, warn_deprecated(name, opt))
                       ELSE warnings
    /\ pending' = Tail(pending)
    /\ UNCHANGED <<NAMESPACES, DEFAULTS, call, ret, cache, ran, tpc, targ,
                   tval, flat, conv, source, source0, spc, scanned>>

\* "return source"
ScanReturn ==
    /\ spc = "loop"
    /\ pending = <<>>
    /\ spc' = "done"
    /\ scanned' = Return(source)
    /\ UNCHANGED <<NAMESPACES, DEFAULTS, call, ret, cache, ran, tpc, targ,
                   tval, flat, conv, source, source0, pending, warnings>>

NextScan == ScanCall \/ ScanStep \/ ScanReturn

SpecScan == InitScan /\ [][NextScan]_vars

\* The leaves a warning is due for: the Option declares deprecate_by or
\* remove_by and the source holds a truthy value under the leaf's name.
Deprecated(opt) == opt.deprecate_by # PyNone \/ opt.remove_by # PyNone

SetTruthy(src, name) ==
    \E k \in DOMAIN src.items :
        src.items[k][1] = name /\ src.items[k][2].repr \notin Falsy

DueWarnings(pairs, src) ==
    LET due == SelectSeq(pairs, LAMBDA p : Deprecated(p[2]) /\ SetTruthy(src, p[1]))
    IN  [k \in DOMAIN due |-> due[k][1]]

\* C9: the scan ends; when it has, exactly one warning has been emitted for
\* every flattened pair whose Option declares deprecate_by or remove_by and
\* whose name the source sets to a truthy value, and none for any other
\* pair; it returns the source it was given; neither the source, nor the
\* tree, nor DEFAULTS changes at any step.
C9_DeprecationScan ==
    /\ [](spc = "loop" => ENABLED NextScan)
    /\ [](spc = "done" =>
            /\ [k \in DOMAIN warnings |-> warnings[k].description]
                 = DueWarnings(flatten(NAMESPACES, <<>>), source0)
            /\ \A k \in DOMAIN warnings :
                  \E p \in DOMAIN flatten(NAMESPACES, <<>>) :
                      /\ flatten(NAMESPACES, <<>>)[p][1] = warnings[k].description
                      /\ warnings[k] =
                           [description |-> flatten(NAMESPACES, <<>>)[p][1],
                            deprecation |-> flatten(NAMESPACES, <<>>)[p][2].deprecate_by,
                            removal |-> flatten(NAMESPACES, <<>>)[p][2].remove_by,
                            alternative |-> flatten(NAMESPACES, <<>>)[p][2].alt]
            /\ scanned = Return(source0))
    /\ [][/\ source' = source
          /\ NAMESPACES' = NAMESPACES
          /\ DEFAULTS' = DEFAULTS
          /\ (spc = "loop" /\ spc' = "loop") => Len(pending') < Len(pending)]_vars

C9_Witness ==
    /\ spc = "done"
    /\ Len(warnings) = 1
    /\ scanned = Return(source)
    /\ Len(source.items) = 2
    /\ \E k \in DOMAIN source.items : source.items[k][2] = V("''")

----------------------------------------------------------------------------
(* The memoized find, called again and again by one thread, the tree      *)
(* being rebound or mutated by other code between calls.                  *)

Tree(top, shapes) ==
    Dict([i \in DOMAIN top |-> <<top[i], EntryOf(top[i], shapes[i])>>])

PlainOption == [dict |-> FALSE, kind |-> "plain"]

PlainDict(keys) ==
    [dict |-> TRUE, keys |-> keys, kinds |-> [j \in DOMAIN keys |-> "plain"]]

MemoTrees ==
    {Tree(<<a>>, <<PlainDict(<<c>>)>>),
     Tree(<<b, a>>, <<PlainDict(<<c>>), PlainDict(<<c>>)>>),
     Tree(<<a, b>>, <<PlainOption, PlainDict(<<c>>)>>)}

MemoArgs == Args({c, upper(c), a}, {celery}) \cup Args({c}, {a})

InitMemo ==
    \E tree \in MemoTrees :
        ImportState(tree) /\ call = NoCall /\ source = EmptyDict

MemoCall == \E args \in MemoArgs : find_memoized(args)

\* Other code changes the tree; DEFAULTS, built at import, stays.
MutateTree ==
    /\ NAMESPACES' \in MemoTrees \ {NAMESPACES}
    /\ UNCHANGED <<DEFAULTS, call, ret, cache, ran, tpc, targ, tval, flat,
                   conv, source, source0, spc, pending, warnings, scanned>>

NextMemo == MemoCall \/ MutateTree

SpecMemo == InitMemo /\ [][NextMemo]_vars

CallKey == memoize_key(call.name, call.namespace)

\* C7: what a call returned stays in the cache under its exact argument
\* pair: no entry is ever dropped or given another value, a call whose pair
\* is cached returns the cached value without running the body, even after
\* the tree has changed, and a pair in another spelling is a miss that runs
\* the body and gets an entry of its own.
C7_MemoizedForever ==
    /\ []((call # NoCall /\ ret.kind = "return") =>
            (cache_hit(CallKey) /\ cache_get(CallKey) = ret.value))
    /\ [][\A k \in Keys(cache) :
            k \in Keys(cache') /\ GetItem(cache', k) = GetItem(cache, k)]_vars
    /\ [][(NAMESPACES' = NAMESPACES /\ cache_hit(CallKey')) =>
            (ret' = Return(cache_get(CallKey')) /\ ran' = FALSE)]_vars
    /\ [][(NAMESPACES' = NAMESPACES /\ ~cache_hit(CallKey')) =>
            (ran' = TRUE /\ ret' = find(call'.name, call'.namespace))]_vars

\* A stale hit: the cached value is returned although the tree now resolves
\* the pair differently, and the same name in another spelling holds a
\* different value in the cache.
C7_Witness ==
    /\ call # NoCall
    /\ ran = FALSE
    /\ ret.kind = "return"
    /\ ret # find(call.name, call.namespace)
    /\ \E k \in Keys(cache) :
          /\ k # CallKey
          /\ lower(k[1]) = lower(call.name)
          /\ k[2] = call.namespace
          /\ GetItem(cache, k) # ret.value

----------------------------------------------------------------------------
(* Threads calling the memoized find at once, the tree left alone.  The    *)
(* wrapper takes its lock for the lookup and for the store, not for the    *)
(* body.                                                                   *)

ThreadTrees == MemoTrees

ThreadArgs == Args({c, unknown}, {celery}) \cup Args({c}, {a})

InitThreads ==
    \E tree \in ThreadTrees :
        ImportState(tree) /\ call = NoCall /\ source = EmptyDict

Begin(t) ==
    /\ tpc[t] = "idle"
    /\ \E args \in ThreadArgs : targ' = [targ EXCEPT ![t] = args]
    /\ tpc' = [tpc EXCEPT ![t] = "lookup"]
    /\ tval' = [tval EXCEPT ![t] = NotCalled]
    /\ UNCHANGED <<NAMESPACES, DEFAULTS, call, ret, cache, ran, flat, conv,
                   source, source0, spc, pending, warnings, scanned>>

Lookup(t) ==
    /\ tpc[t] = "lookup"
    /\ LET key == memoize_key(targ[t].name, targ[t].namespace)
       IN  IF cache_hit(key)
           THEN /\ tval' = [tval EXCEPT ![t] = Return(cache_get(key))]
                /\ cache' = cache_after_get(key)
                /\ tpc' = [tpc EXCEPT ![t] = "hit"]
           ELSE /\ tpc' = [tpc EXCEPT ![t] = "compute"]
                /\ UNCHANGED <<tval, cache>>
    /\ UNCHANGED <<NAMESPACES, DEFAULTS, call, ret, ran, targ, flat, conv,
                   source, source0, spc, pending, warnings, scanned>>

Compute(t) ==
    /\ tpc[t] = "compute"
    /\ tval' = [tval EXCEPT ![t] = find(targ[t].name, targ[t].namespace)]
    /\ NAMESPACES' = find_leaves_NAMESPACES(targ[t].name, targ[t].namespace)
    /\ tpc' = [tpc EXCEPT ![t] =
                 IF tval'[t].kind = "return" THEN "store" ELSE "raised"]
    /\ UNCHANGED <<DEFAULTS, call, ret, cache, ran, targ, flat, conv,
                   source, source0, spc, pending, warnings, scanned>>

Store(t) ==
    /\ tpc[t] = "store"
    /\ cache' = cache_after_store(memoize_key(targ[t].name, targ[t].namespace),
                                  tval[t].value)
    /\ tpc' = [tpc EXCEPT ![t] = "stored"]
    /\ UNCHANGED <<NAMESPACES, DEFAULTS, call, ret, ran, targ, tval, flat,
                   conv, source, source0, spc, pending, warnings, scanned>>

\* The call is over: the value is returned, or the exception raised.
Finish(t) ==
    /\ tpc[t] \in {"hit", "stored", "raised"}
    /\ tpc' = [tpc EXCEPT ![t] = "idle"]
    /\ UNCHANGED <<NAMESPACES, DEFAULTS, call, ret, cache, ran, targ, tval,
                   flat, conv, source, source0, spc, pending, warnings,
                   scanned>>

NextThreads ==
    \E t \in Threads :
        Begin(t) \/ Lookup(t) \/ Compute(t) \/ Store(t) \/ Finish(t)

SpecThreads == InitThreads /\ [][NextThreads]_vars

\* C10: under every interleaving, what a call returns (or raises) is what
\* the resolver gives for its arguments when evaluated on its own, and
\* every entry of the cache holds that value for its key.
C10_RaceIsBenign ==
    /\ \A t \in Threads :
          tpc[t] \in {"hit", "stored", "raised"} =>
              tval[t] = find(targ[t].name, targ[t].namespace)
    /\ \A k \in Keys(cache) : Return(GetItem(cache, k)) = find(k[1], k[2])

\* Two threads missed on the same pair, both ran the body and both stored.
C10_Witness ==
    /\ tpc[1] = "stored"
    /\ tpc[2] = "stored"
    /\ targ[1] = targ[2]
    /\ cache_hit(memoize_key(targ[1].name, targ[1].namespace))

====
